---------------------------- MODULE Spec2Model ----------------------------
(***************************************************************************)
(* web-context-js: the loader's resolve hook (specifier restriction), the  *)
(* diagnostic error it throws, the text formatters the message is built    *)
(* from, and the process-wide uncaughtException reporter (index.mjs).      *)
(*                                                                         *)
(* Text is a sequence of text units.  A unit is a one-character string; a  *)
(* non-ASCII code point is written "U+xxxx" and an SGR escape sequence     *)
(* "ESC[<n>m", each as ONE unit (an escape sequence has display width 0).  *)
(*                                                                         *)
(* The repository holds two revisions of the module.  The model follows    *)
(* index.mjs; the earlier revision agrees with it on isReservedSpecifier   *)
(* and resolve, styles text whatever the terminal supports, words the      *)
(* message without "either" and writes its report without a newline.       *)
(* cli-color and columnify are libraries: clc.* wraps a string in an SGR   *)
(* pair, columnify lays one row out in two columns and wraps the second.   *)
(***************************************************************************)
EXTENDS Naturals, Sequences, FiniteSets, TLC

VARIABLES
    supportsAnsi,   \* import supportsAnsi from 'supports-ansi' (rich output)
    cwd,            \* process.cwd() when the module is loaded
    baseURL,        \* baseURL.href
    newlineMarker,  \* os.EOL
    calls,          \* the resolve() invocations, by call id
    nextCalls,      \* the invocations of defaultResolve, in call order
    uncaught,       \* the errors delivered to 'uncaughtException', in order
    stderr,         \* the writes made to process.stderr.fd, in order
    exited,         \* whether the process has been terminated
    fn,             \* the exported helper applied last ("none": not yet)
    args,           \* its arguments
    ret             \* its return value

vars == <<supportsAnsi, cwd, baseURL, newlineMarker, calls, nextCalls,
          uncaught, stderr, exited, fn, args, ret>>

---------------------------------------------------------------------------
(* Bounds of the model. *)

\* longest tail appended to a specifier prefix
MaxTail == 3
\* longest directory name of the working directory
MaxCwd == 1
\* number of resolve() invocations, which may overlap
MaxCalls == 2
\* number of uncaught errors reported
MaxReports == 2

---------------------------------------------------------------------------
(* Text literals of the source. *)

fileScheme ==
    <<"f", "i", "l", "e", ":", "/", "/">>

txtFailed ==
    <<"F", "a", "i", "l", "e", "d", " ", "t", "o", " ", "r", "e", "s", "o",
      "l", "v", "e", " ", "m", "o", "d", "u", "l", "e", " ", "s", "p", "e",
      "c", "i", "f", "i", "e", "r", " ">>

txtImported ==
    <<" ", "i", "m", "p", "o", "r", "t", "e", "d", " ", "f", "r", "o", "m",
      " ">>

txtBare ==
    <<".", " ", "B", "a", "r", "e", " ", "s", "p", "e", "c", "i", "f", "i",
      "e", "r", "s", " ", "a", "r", "e", " ", "r", "e", "s", "e", "r", "v",
      "e", "d", " ", "f", "o", "r", " ", "p", "o", "t", "e", "n", "t", "i",
      "a", "l", " ", "f", "u", "t", "u", "r", "e", " ", "u", "s", "e", " ",
      "a", "n", "d", " ", "r", "e", "l", "a", "t", "i", "v", "e", " ", "r",
      "e", "f", "e", "r", "e", "n", "c", "e", "s", " ">>

txtBeginEither ==
    <<" ", "b", "e", "g", "i", "n", " ", "w", "i", "t", "h", " ", "e", "i",
      "t", "h", "e", "r", " ">>

txtComma ==
    <<",", " ">>

txtOr ==
    <<",", " ", "o", "r", " ">>

txtMust ==
    <<"m", "u", "s", "t">>

txtUncaught ==
    <<"U", "n", "c", "a", "u", "g", "h", "t", " ">>

txtTypeError ==
    <<"T", "y", "p", "e", "E", "r", "r", "o", "r">>

txtError ==
    <<"E", "r", "r", "o", "r">>

txtColon ==
    <<":", " ">>

\* UnicodeEscapes
leftDoubleQuotes == "U+201C"
rightDoubleQuotes == "U+201D"
errorSymbol == "U+24E7"

\* the SGR sequences cli-color puts around a styled string
startItalics == "ESC[3m"
stopItalics == "ESC[23m"
startUnderline == "ESC[4m"
stopUnderline == "ESC[24m"
startRed == "ESC[31m"
stopRed == "ESC[39m"

AnsiEscapes ==
    {startItalics, stopItalics, startUnderline, stopUnderline, startRed,
     stopRed}

---------------------------------------------------------------------------
(* String primitives of the language. *)

\* String.prototype.startsWith
startsWith(str, prefix) ==
    /\ Len(str) >= Len(prefix)
    /\ \A i \in 1..Len(prefix) : str[i] = prefix[i]

\* /^\.{0,2}\//.test(str): at the start, zero to two "." and then a "/"
regexDotsSlash(str) ==
    \E k \in 0..2 :
        /\ Len(str) >= k + 1
        /\ \A i \in 1..k : str[i] = "."
        /\ str[k + 1] = "/"

---------------------------------------------------------------------------
(* Helpers. *)

isReservedSpecifier_dotsUnbounded(specifier) ==
    IF /\ ~(\E k \in 0..Len(specifier) :
               /\ Len(specifier) >= k + 1
               /\ \A i \in 1..k : specifier[i] = "."
               /\ specifier[k + 1] = "/")
       /\ ~startsWith(specifier, fileScheme)
    THEN TRUE
    ELSE FALSE

isReservedSpecifier(specifier) ==
    IF ~regexDotsSlash(specifier) /\ ~startsWith(specifier, fileScheme)
    THEN TRUE
    ELSE FALSE

curlyQuote(arbitraryString) ==
    <<leftDoubleQuotes>> \o arbitraryString \o <<rightDoubleQuotes>>

\* clc.italic, clc.red, clc.underline
clcItalic(str) == <<startItalics>> \o str \o <<stopItalics>>
clcRed(str) == <<startRed>> \o str \o <<stopRed>>
clcUnderline(str) == <<startUnderline>> \o str \o <<stopUnderline>>

italicize_always(arbitraryString) ==
    clcItalic(arbitraryString)

italicize(arbitraryString) ==
    IF supportsAnsi THEN clcItalic(arbitraryString) ELSE arbitraryString

redden(arbitraryString) ==
    IF supportsAnsi THEN clcRed(arbitraryString) ELSE arbitraryString

underline(arbitraryString) ==
    IF supportsAnsi THEN clcUnderline(arbitraryString) ELSE arbitraryString

---------------------------------------------------------------------------
(* Errors. *)

\* new TypeError(message), new Error(message)
TypeError(message) ==
    [isTypeError |-> TRUE, code |-> "none", message |-> message]

Error(message) ==
    [isTypeError |-> FALSE, code |-> "none", message |-> message]

InvalidModuleSpecifierError_noEither(specifier, referrerUrl) ==
    [isTypeError |-> TRUE,
     code |-> "ERR_INVALID_MODULE_SPECIFIER",
     message |->
        txtFailed \o curlyQuote(specifier) \o txtImported
        \o underline(referrerUrl) \o txtBare \o italicize(txtMust)
        \o <<" ", "b", "e", "g", "i", "n", " ", "w", "i", "t", "h", " ">>
        \o curlyQuote(<<"/">>) \o txtComma
        \o curlyQuote(<<".", "/">>) \o txtOr
        \o curlyQuote(<<".", ".", "/">>) \o <<".">>]

InvalidModuleSpecifierError(specifier, referrerUrl) ==
    [isTypeError |-> TRUE,
     code |-> "ERR_INVALID_MODULE_SPECIFIER",
     message |->
        txtFailed \o curlyQuote(specifier) \o txtImported
        \o underline(referrerUrl) \o txtBare \o italicize(txtMust)
        \o txtBeginEither \o curlyQuote(<<"/">>) \o txtComma
        \o curlyQuote(<<".", "/">>) \o txtOr
        \o curlyQuote(<<".", ".", "/">>) \o <<".">>]

---------------------------------------------------------------------------
(* Startup: the base URL, computed once when the module is loaded. *)

\* a directory name of process.cwd() is made of these
PathChars == {"a", " "}

RECURSIVE StringsUpTo(_, _)
StringsUpTo(S, n) ==
    IF n = 0
    THEN {<<>>}
    ELSE LET P == StringsUpTo(S, n - 1)
         IN  P \cup {Append(p, c) : p \in P, c \in S}

\* process.cwd(): an absolute, normalised path (no "." or ".." segment)
Cwds == {<<"/">> \o n : n \in StringsUpTo(PathChars, MaxCwd) \ {<<>>}}

\* UTF-8 percent-encoding of one unit with the URL path percent-encode set
percentEncode(c) ==
    CASE c = " " -> <<"%", "2", "0">>
      [] c = "#" -> <<"%", "2", "3">>
      [] c = "<" -> <<"%", "3", "C">>
      [] c = ">" -> <<"%", "3", "E">>
      [] c = "?" -> <<"%", "3", "F">>
      [] c = "{" -> <<"%", "7", "B">>
      [] c = "}" -> <<"%", "7", "D">>
      [] OTHER -> <<c>>

RECURSIVE percentEncodePath(_)
percentEncodePath(str) ==
    IF str = <<>>
    THEN <<>>
    ELSE percentEncode(Head(str)) \o percentEncodePath(Tail(str))

\* the pathname setter of URL, on a path without dot segments: each segment
\* is percent-encoded and the segments are joined by "/" again
pathnameSetter(value) ==
    percentEncodePath(value)

\* new URL('file://'); baseURL.pathname = process.cwd() + '/'; baseURL.href
baseURLHref(dir) ==
    fileScheme \o pathnameSetter(dir \o <<"/">>)

\* os.EOL
LF == <<"\n">>
CRLF == <<"\r", "\n">>

---------------------------------------------------------------------------
(* Hooks. *)

CallIds == 1..MaxCalls

\* the specifiers the host loader asks about
sLodash ==
    <<"l", "o", "d", "a", "s", "h">>

sRelA ==
    <<".", "/", "a", ".", "j", "s">>

sParent ==
    <<"f", "i", "l", "e", ":", "/", "/", "/", "a", "/", "b", ".", "j", "s">>

sResolved ==
    <<"f", "i", "l", "e", ":", "/", "/", "/", "a", "/", "a", ".", "j", "s">>

txtBoom ==
    <<"b", "o", "o", "m">>

HookSpecifiers == {sLodash, sRelA}

ConditionLists == {<<"node", "import">>, <<"import", "node">>}

\* a context: parentURL may be missing, conditions is always there
Contexts ==
    {[conditions |-> c] : c \in ConditionLists}
    \cup {[parentURL |-> sParent, conditions |-> c] : c \in ConditionLists}

\* the resolver the host hands over as the third argument
Resolvers == {"defaultResolve"}

\* what the promise of a wrapped resolver may settle to
Outcomes ==
    {[kind |-> "fulfilled", value |-> [url |-> sResolved]],
     [kind |-> "rejected", value |-> Error(txtBoom)]}

Pending == [kind |-> "pending"]

IdleCall == [state |-> "idle"]

\* const { parentURL = baseURL.href } = context;
parentURLOf_last(context) ==
    IF "parentURL" \in DOMAIN context
    THEN context.parentURL
    ELSE IF nextCalls = <<>>
         THEN baseURL
         ELSE nextCalls[Len(nextCalls)].context.parentURL

parentURLOf_cwd(context) ==
    IF "parentURL" \in DOMAIN context
    THEN context.parentURL
    ELSE fileScheme \o cwd \o <<"/">>

parentURLOf(context) ==
    IF "parentURL" \in DOMAIN context THEN context.parentURL ELSE baseURL

\* the synchronous part of resolve(specifier, context, defaultResolve): it
\* throws (the promise of the async function is rejected), or it calls
\* defaultResolve and its promise follows the promise that call returned
resolve_noGate(i, specifier, context, defaultResolve) ==
    /\ calls[i].state = "idle"
    /\ LET parentURL == parentURLOf(context)
       IN  /\ nextCalls' = Append(nextCalls,
                  [specifier |-> specifier,
                   context |-> [parentURL |-> parentURL],
                   next |-> defaultResolve,
                   caller |-> i,
                   promise |-> Pending])
           /\ calls' = [calls EXCEPT ![i] =
                  [state |-> "pending", specifier |-> specifier,
                   context |-> context, next |-> defaultResolve,
                   awaits |-> Len(nextCalls) + 1]]
    /\ UNCHANGED <<supportsAnsi, cwd, baseURL, newlineMarker, uncaught,
                   stderr, exited, fn, args, ret>>

resolve_retry(i, specifier, context, defaultResolve) ==
    /\ calls[i].state = "idle"
    /\ LET parentURL == parentURLOf(context)
           invocation == [specifier |-> specifier,
                          context |-> [parentURL |-> parentURL],
                          next |-> defaultResolve,
                          caller |-> i,
                          promise |-> Pending]
       IN  IF isReservedSpecifier(specifier)
           THEN /\ calls' = [calls EXCEPT ![i] =
                       [state |-> "rejected", specifier |-> specifier,
                        context |-> context, next |-> defaultResolve,
                        outcome |-> InvalidModuleSpecifierError(specifier,
                                                                parentURL)]]
                /\ UNCHANGED nextCalls
           ELSE /\ nextCalls' = nextCalls \o <<invocation, invocation>>
                /\ calls' = [calls EXCEPT ![i] =
                       [state |-> "pending", specifier |-> specifier,
                        context |-> context, next |-> defaultResolve,
                        awaits |-> Len(nextCalls) + 2]]
    /\ UNCHANGED <<supportsAnsi, cwd, baseURL, newlineMarker, uncaught,
                   stderr, exited, fn, args, ret>>

resolve(i, specifier, context, defaultResolve) ==
    /\ calls[i].state = "idle"
    /\ LET parentURL == parentURLOf(context)
       IN  IF isReservedSpecifier(specifier)
           THEN /\ calls' = [calls EXCEPT ![i] =
                       [state |-> "rejected", specifier |-> specifier,
                        context |-> context, next |-> defaultResolve,
                        outcome |-> InvalidModuleSpecifierError(specifier,
                                                                parentURL)]]
                /\ UNCHANGED nextCalls
           ELSE /\ nextCalls' = Append(nextCalls,
                       [specifier |-> specifier,
                        context |-> [parentURL |-> parentURL],
                        next |-> defaultResolve,
                        caller |-> i,
                        promise |-> Pending])
                /\ calls' = [calls EXCEPT ![i] =
                       [state |-> "pending", specifier |-> specifier,
                        context |-> context, next |-> defaultResolve,
                        awaits |-> Len(nextCalls) + 1]]
    /\ UNCHANGED <<supportsAnsi, cwd, baseURL, newlineMarker, uncaught,
                   stderr, exited, fn, args, ret>>

\* the host's resolver settles the promise its k-th invocation returned
defaultResolveSettles(k, outcome) ==
    /\ k \in 1..Len(nextCalls)
    /\ nextCalls[k].promise = Pending
    /\ nextCalls' = [nextCalls EXCEPT ![k].promise = outcome]
    /\ UNCHANGED <<supportsAnsi, cwd, baseURL, newlineMarker, calls, uncaught,
                   stderr, exited, fn, args, ret>>

\* return defaultResolve(...): the promise of resolve settles as the promise
\* it returned did
resolveSettles(i) ==
    /\ calls[i].state = "pending"
    /\ nextCalls[calls[i].awaits].promise # Pending
    /\ LET settled == nextCalls[calls[i].awaits].promise
       IN  calls' = [calls EXCEPT ![i] =
               [state |-> settled.kind, specifier |-> calls[i].specifier,
                context |-> calls[i].context, next |-> calls[i].next,
                awaits |-> calls[i].awaits, outcome |-> settled.value]]
    /\ UNCHANGED <<supportsAnsi, cwd, baseURL, newlineMarker, nextCalls,
                   uncaught, stderr, exited, fn, args, ret>>

Init ==
    /\ supportsAnsi \in BOOLEAN
    /\ cwd \in Cwds
    /\ baseURL = baseURLHref(cwd)
    /\ newlineMarker = LF
    /\ calls = [i \in CallIds |-> IdleCall]
    /\ nextCalls = <<>>
    /\ uncaught = <<>>
    /\ stderr = <<>>
    /\ exited = FALSE
    /\ fn = "none"
    /\ args = <<>>
    /\ ret = <<>>

Next ==
    \/ \E i \in CallIds, specifier \in HookSpecifiers, context \in Contexts,
          defaultResolve \in Resolvers :
            resolve(i, specifier, context, defaultResolve)
    \/ \E k \in 1..(2 * MaxCalls), outcome \in Outcomes :
            defaultResolveSettles(k, outcome)
    \/ \E i \in CallIds : resolveSettles(i)

Spec == Init /\ [][Next]_vars

---------------------------------------------------------------------------
(* Events: the 'uncaughtException' listener and the table layout it uses. *)

\* columnify options of the listener: minWidth, and maxWidth of description
minWidth == 3
maxWidth == 76

Min(a, b) == IF a < b THEN a ELSE b
Max(a, b) == IF a > b THEN a ELSE b

Whitespace == {" ", "\n", "\r", "\t"}

\* the display width of a text: escape sequences are stripped first
stringWidth(str) == Cardinality({i \in DOMAIN str : str[i] \notin AnsiEscapes})

\* str.replace(/\s/gmi, ' ')
mergeWhitespace(str) ==
    [i \in DOMAIN str |-> IF str[i] \in Whitespace THEN " " ELSE str[i]]

RECURSIVE trimStart(_)
trimStart(str) ==
    IF str # <<>> /\ Head(str) \in Whitespace
    THEN trimStart(Tail(str))
    ELSE str

RECURSIVE trimEnd(_)
trimEnd(str) ==
    IF str # <<>> /\ str[Len(str)] \in Whitespace
    THEN trimEnd(SubSeq(str, 1, Len(str) - 1))
    ELSE str

\* String.prototype.trim
trim(str) == trimEnd(trimStart(str))

\* str.split(' '): the pieces between one blank and the next
splitOnSpace(str) ==
    LET blanks == {i \in DOMAIN str : str[i] = " "}
        \* the k-th boundary: 0, the blanks in order, Len(str) + 1
        bound(k) ==
            IF k = 0
            THEN 0
            ELSE IF k > Cardinality(blanks)
                 THEN Len(str) + 1
                 ELSE CHOOSE i \in blanks :
                          Cardinality({j \in blanks : j <= i}) = k
    IN  [k \in 1..(Cardinality(blanks) + 1) |->
            SubSeq(str, bound(k - 1) + 1, bound(k) - 1)]

\* words.join(sep)
RECURSIVE joinWith(_, _)
joinWith(words, sep) ==
    IF words = <<>>
    THEN <<>>
    ELSE IF Len(words) = 1
         THEN Head(words)
         ELSE Head(words) \o sep \o joinWith(Tail(words), sep)

\* the longest prefix of word that fits in limit columns, as a length
RECURSIVE fitLength(_, _, _)
fitLength(word, i, limit) ==
    IF i < Len(word) /\ stringWidth(SubSeq(word, 1, i + 1)) <= limit
    THEN fitLength(word, i + 1, limit)
    ELSE i

\* splitLongWords: a word wider than the column is cut into pieces that end
\* with the truncation character
RECURSIVE cutLongWords(_, _)
cutLongWords(words, max) ==
    IF words = <<>>
    THEN <<>>
    ELSE LET word == Head(words)
         IN  IF stringWidth(word) > max
             THEN LET i == fitLength(word, 0, max - 1)
                  IN  << SubSeq(word, 1, i) \o <<"U+2026">> >>
                      \o cutLongWords(
                             << SubSeq(word, i + 1, Len(word)) >>
                             \o Tail(words), max)
             ELSE <<word>> \o cutLongWords(Tail(words), max)

splitLongWords(str, max) ==
    joinWith(cutLongWords(splitOnSpace(trim(str)), max), <<" ">>)

\* splitIntoLines: the words fill a line while the line stays within max
RECURSIVE fillLines(_, _, _)
fillLines(words, lines, max) ==
    IF words = <<>>
    THEN lines
    ELSE LET word == Head(words)
             n == Len(lines)
         IN  IF /\ n > 0
                /\ stringWidth(joinWith(lines[n], <<" ">>))
                       + stringWidth(word) < max
             THEN fillLines(Tail(words),
                            [lines EXCEPT ![n] = Append(@, word)], max)
             ELSE fillLines(Tail(words), Append(lines, <<word>>), max)

splitIntoLines(str, max) ==
    LET lines == fillLines(splitOnSpace(trim(str)), <<>>, max)
    IN  [i \in DOMAIN lines |-> joinWith(lines[i], <<" ">>)]

spaces(n) == [i \in 1..n |-> " "]

padRight(str, max) ==
    LET length == max - stringWidth(str)
    IN  IF length <= 0 THEN str ELSE str \o spaces(length)

padCenter(str, max) ==
    LET length == max - stringWidth(str)
    IN  IF length <= 0
        THEN str
        ELSE spaces(length \div 2) \o str \o spaces(length - length \div 2)

\* the width of a column: the widest line, within minWidth and the maximum
RECURSIVE widthOf(_, _, _)
widthOf(lines, min, hasMax) ==
    IF lines = <<>>
    THEN min
    ELSE LET w == Max(minWidth, stringWidth(Head(lines)))
             cur == IF hasMax THEN Min(maxWidth, w) ELSE w
         IN  IF hasMax /\ min >= maxWidth
             THEN min
             ELSE widthOf(Tail(lines), Max(min, cur), hasMax)

\* columnify([{ symbol, description }], { showHeaders: false, minWidth: 3,
\*   config: { symbol: { align: 'center' }, description: { maxWidth: 76 } } })
columnify(symbol, description) ==
    LET sym == mergeWhitespace(symbol)
        desc == mergeWhitespace(description)
        symWidth0 == widthOf(<<sym>>, 0, FALSE)
        descWidth0 == widthOf(<<desc>>, 0, TRUE)
        symLines == splitIntoLines(splitLongWords(sym, symWidth0), symWidth0)
        descLines ==
            splitIntoLines(splitLongWords(desc, descWidth0), descWidth0)
        symWidth == widthOf(symLines, 0, FALSE)
        descWidth == widthOf(descLines, 0, TRUE)
        numLines == Max(Len(symLines), Len(descLines))
        cell(lines, i) == IF i <= Len(lines) THEN lines[i] ELSE <<>>
        rows == [i \in 1..numLines |->
                    padCenter(cell(symLines, i), symWidth) \o <<" ">>
                    \o padRight(cell(descLines, i), descWidth)]
    IN  joinWith(rows, <<"\n">>)

errorTextOf_alwaysError(err) ==
    txtUncaught \o txtError \o txtColon \o err.message

\* 'Uncaught ' + (err instanceof TypeError ? 'TypeError' : 'Error') + ': '
\* + err.message
errorTextOf(err) ==
    txtUncaught \o (IF err.isTypeError THEN txtTypeError ELSE txtError)
    \o txtColon \o err.message

\* what the listener hands to writeSync
reportOf_noNewline(err) ==
    columnify(redden(<<errorSymbol>>), redden(errorTextOf(err)))

reportOf(err) ==
    columnify(redden(<<errorSymbol>>), redden(errorTextOf(err)))
    \o newlineMarker

\* process.on('uncaughtException', (err) => { ... })
uncaughtException(err) ==
    /\ ~exited
    /\ Len(uncaught) < MaxReports
    /\ uncaught' = Append(uncaught, err)
    /\ stderr' = Append(stderr, reportOf(err))
    /\ UNCHANGED <<supportsAnsi, cwd, baseURL, newlineMarker, calls,
                   nextCalls, exited, fn, args, ret>>

txtTwoLines ==
    <<"a", "\n", "b">>

\* the errors that escape all other handling
UncaughtErrors ==
    {TypeError(txtBoom), Error(txtBoom), Error(txtTwoLines),
     InvalidModuleSpecifierError(sLodash, sParent),
     InvalidModuleSpecifierError(sLodash, baseURL)}

InitReporter ==
    /\ supportsAnsi \in BOOLEAN
    /\ cwd \in Cwds
    /\ baseURL = baseURLHref(cwd)
    /\ newlineMarker \in {LF, CRLF}
    /\ calls = [i \in CallIds |-> IdleCall]
    /\ nextCalls = <<>>
    /\ uncaught = <<>>
    /\ stderr = <<>>
    /\ exited = FALSE
    /\ fn = "none"
    /\ args = <<>>
    /\ ret = <<>>

NextReporter ==
    \E err \in UncaughtErrors : uncaughtException(err)

SpecReporter == InitReporter /\ [][NextReporter]_vars

---------------------------------------------------------------------------
(* The exported helpers, each applied to arguments drawn at the start. *)

TailChars == {".", "/", "x"}

sScoped ==
    <<"@", "s", "c", "o", "p", "e", "/", "p", "k", "g">>

sUpperFile ==
    <<"F", "I", "L", "E", ":", "/", "/">>

sHttp ==
    <<"h", "t", "t", "p", ":", "/", "/", "e", "x", "a", "m", "p", "l", "e",
      ".", "c", "o", "m", "/">>

sFileOneSlash ==
    <<"f", "i", "l", "e", ":", "/">>

sThreeDots ==
    <<".", ".", ".">>

Prefixes ==
    {<<>>, fileScheme, sUpperFile, sFileOneSlash, sLodash, sScoped, sHttp,
     sThreeDots}

Specifiers ==
    {p \o t : p \in Prefixes, t \in StringsUpTo(TailChars, MaxTail)}

applyHelper(name, value) ==
    /\ fn = "none"
    /\ fn' = name
    /\ ret' = value
    /\ UNCHANGED <<supportsAnsi, cwd, baseURL, newlineMarker, calls,
                   nextCalls, uncaught, stderr, exited, args>>

InitHelpers ==
    /\ supportsAnsi \in BOOLEAN
    /\ cwd \in Cwds
    /\ baseURL = baseURLHref(cwd)
    /\ newlineMarker = LF
    /\ calls = [i \in CallIds |-> IdleCall]
    /\ nextCalls = <<>>
    /\ uncaught = <<>>
    /\ stderr = <<>>
    /\ exited = FALSE
    /\ fn = "none"
    /\ args \in Specifiers \X {sParent, baseURL}
    /\ ret = <<>>

callIsReservedSpecifier ==
    applyHelper("isReservedSpecifier", isReservedSpecifier(args[1]))

callCurlyQuote ==
    applyHelper("curlyQuote", curlyQuote(args[1]))

callItalicize ==
    applyHelper("italicize", italicize(args[1]))

callRedden ==
    applyHelper("redden", redden(args[1]))

callUnderline ==
    applyHelper("underline", underline(args[1]))

newInvalidModuleSpecifierError ==
    applyHelper("InvalidModuleSpecifierError",
                InvalidModuleSpecifierError(args[1], args[2]))

NextHelpers ==
    \/ callIsReservedSpecifier
    \/ callCurlyQuote
    \/ callItalicize
    \/ callRedden
    \/ callUnderline
    \/ newInvalidModuleSpecifierError

SpecHelpers == InitHelpers /\ [][NextHelpers]_vars

---------------------------------------------------------------------------
(* Properties. *)

HasPrefix(s, p) == Len(s) >= Len(p) /\ SubSeq(s, 1, Len(p)) = p

EndsWith(s, p) ==
    Len(s) >= Len(p) /\ SubSeq(s, Len(s) - Len(p) + 1, Len(s)) = p

Contains(s, p) ==
    \E i \in 0..(Len(s) - Len(p)) : SubSeq(s, i + 1, i + Len(p)) = p

Quoted(x) == <<"U+201C">> \o x \o <<"U+201D">>

\* x between a start and a stop escape sequence
Styled(r, x) ==
    /\ Len(r) = Len(x) + 2
    /\ SubSeq(r, 2, Len(r) - 1) = x
    /\ r[1] \in AnsiEscapes
    /\ r[Len(r)] \in AnsiEscapes
    /\ r[1] # r[Len(r)]

Started(i) == calls[i].state # "idle"

\* the invocations of the wrapped resolver made by call i
InvocationsOf(i) == {k \in DOMAIN nextCalls : nextCalls[k].caller = i}

\* the referrer of call i: its context's parentURL, or else the given default
ReferrerOf(i, default) ==
    IF "parentURL" \in DOMAIN calls[i].context
    THEN calls[i].context.parentURL
    ELSE default

C2_ReservedRejected ==
    \A i \in CallIds :
        (Started(i) /\ isReservedSpecifier(calls[i].specifier)) =>
            /\ calls[i].state = "rejected"
            /\ calls[i].outcome.code = "ERR_INVALID_MODULE_SPECIFIER"
            /\ calls[i].outcome =
                   InvalidModuleSpecifierError(calls[i].specifier,
                                               ReferrerOf(i, baseURL))
            /\ Contains(calls[i].outcome.message,
                        Quoted(calls[i].specifier))
            /\ InvocationsOf(i) = {}

C2_Witness ==
    \E i, j \in CallIds :
        /\ calls[i].state = "rejected"
        /\ calls[i].specifier = sLodash
        /\ calls[i].outcome.code = "ERR_INVALID_MODULE_SPECIFIER"
        /\ calls[j].state = "fulfilled"
        /\ Len(nextCalls) = 1

\* C3: a resolve call whose specifier is not reserved invokes the wrapped
\* resolver exactly once, with (specifier, { parentURL: referrer }, next) and
\* the specifier as given, and settles exactly as that invocation settles:
\* same value when it fulfils, same error when it fails.
C3_Delegated ==
    \A i \in CallIds :
        (Started(i) /\ ~isReservedSpecifier(calls[i].specifier)) =>
            /\ Cardinality(InvocationsOf(i)) = 1
            /\ \A k \in InvocationsOf(i) :
                /\ nextCalls[k].specifier = calls[i].specifier
                /\ nextCalls[k].context =
                       [parentURL |-> ReferrerOf(i, baseURL)]
                /\ nextCalls[k].next = calls[i].next
                /\ calls[i].state \in {"pending", "fulfilled", "rejected"}
                /\ calls[i].state # "pending" =>
                       /\ nextCalls[k].promise.kind = calls[i].state
                       /\ nextCalls[k].promise.value = calls[i].outcome

C3_Witness ==
    \E i \in CallIds :
        /\ calls[i].state = "rejected"
        /\ calls[i].specifier = sRelA
        /\ calls[i].outcome = Error(txtBoom)
        /\ Cardinality(InvocationsOf(i)) = 1

\* the referrer call i used: in the message of its rejection, or as the
\* parentURL of its delegated invocation
UsesReferrer(i, referrer) ==
    IF calls[i].state = "rejected" /\ InvocationsOf(i) = {}
    THEN \E quoted \in {referrer, <<"ESC[4m">> \o referrer \o <<"ESC[24m">>} :
             Contains(calls[i].outcome.message,
                      txtImported \o quoted \o txtBare)
    ELSE \A k \in InvocationsOf(i) :
             nextCalls[k].context.parentURL = referrer

RECURSIVE EncodedPath(_)
EncodedPath(str) ==
    IF str = <<>>
    THEN <<>>
    ELSE (IF Head(str) = " " THEN <<"%", "2", "0">> ELSE <<Head(str)>>)
         \o EncodedPath(Tail(str))

C5_ConditionsPassedThrough ==
    \A k \in DOMAIN nextCalls :
        /\ "conditions" \in DOMAIN nextCalls[k].context
        /\ nextCalls[k].context.conditions
               = calls[nextCalls[k].caller].context.conditions

KindOf(err) == IF err.isTypeError THEN txtTypeError ELSE txtError

OnOneLine(text) ==
    /\ stringWidth(text) <= 76
    /\ \A n \in DOMAIN text : text[n] \notin {"\n", "\r", "\t"}
    /\ \A n \in DOMAIN text :
           text[n] = " " => n < Len(text) /\ text[n + 1] # " "

GateOutcome(i) ==
    IF InvocationsOf(i) = {}
    THEN <<"threw", calls[i].outcome>>
    ELSE <<"delegated",
           {<<nextCalls[k].specifier, nextCalls[k].context,
              nextCalls[k].next>> : k \in InvocationsOf(i)}>>

\* C10: no step of a resolve call writes the startup configuration or any
\* other shared state, and what a call does at the gate is decided by its own
\* arguments and the startup configuration alone: it is what the call would
\* do alone, and two calls with the same arguments do the same, whether they
\* run one after the other or overlap.
C10_StatelessGate ==
    /\ [][/\ baseURL' = baseURL
          /\ supportsAnsi' = supportsAnsi
          /\ cwd' = cwd
          /\ newlineMarker' = newlineMarker
          /\ stderr' = stderr
          /\ \A i \in CallIds :
                 Started(i) =>
                     /\ Started(i)'
                     /\ GateOutcome(i)' = GateOutcome(i)]_vars
    /\ [](\A i \in CallIds :
            Started(i) =>
                GateOutcome(i) =
                    IF isReservedSpecifier(calls[i].specifier)
                    THEN <<"threw",
                           InvalidModuleSpecifierError(
                               calls[i].specifier, ReferrerOf(i, baseURL))>>
                    ELSE <<"delegated",
                           {<<calls[i].specifier,
                              [parentURL |-> ReferrerOf(i, baseURL)],
                              calls[i].next>>}>>)
    /\ [](\A i, j \in CallIds :
            (/\ Started(i)
             /\ Started(j)
             /\ calls[i].specifier = calls[j].specifier
             /\ calls[i].context = calls[j].context
             /\ calls[i].next = calls[j].next) =>
                IF InvocationsOf(i) = {} \/ InvocationsOf(j) = {}
                THEN /\ InvocationsOf(i) = InvocationsOf(j)
                     /\ calls[i].outcome = calls[j].outcome
                ELSE GateOutcome(i) = GateOutcome(j))

C10_Witness ==
    \E i, j \in CallIds :
        /\ i # j
        /\ calls[i].state = "fulfilled"
        /\ calls[j].state = "pending"
        /\ calls[i].specifier = calls[j].specifier
        /\ calls[i].context = calls[j].context
        /\ "parentURL" \notin DOMAIN calls[i].context
        /\ \E k \in InvocationsOf(j) : nextCalls[k].promise.kind = "rejected"

===========================================================================
